---- MODULE Spec2Model ----
(***************************************************************************)
(* Model of kern/tsc.c: the PIT-based TSC calibration (pit_expect_msb,     *)
(* quick_pit_calibrate, tsc_calibrate) and the named-timer session         *)
(* (timer_start, timer_stop, timer_cpu_frequency).                         *)
(*                                                                         *)
(* uint64_t values are kept at their width.  TLC's integers are 32 bits    *)
(* wide, so a uint64_t is a tuple of four 16-bit limbs, least significant  *)
(* first: <<l1, l2, l3, l4>> stands for l1 + l2*2^16 + l3*2^32 + l4*2^48.  *)
(* Every operation below is arithmetic modulo 2^64 on that form.           *)
(***************************************************************************)
EXTENDS Integers, Sequences, FiniteSets, TLC

\* ------------------------------------------------------------------------
\* uint64_t arithmetic (inc/types.h uint64_t; x86-64 unsigned long)
\* ------------------------------------------------------------------------
B == 2^16

\* the uint64_t with value n, for 0 <= n < 2^31
U64(n) == <<n % B, (n \div B) % B, 0, 0>>

Zero == <<0, 0, 0, 0>>

MaxU64 == <<B - 1, B - 1, B - 1, B - 1>>

\* a + b  (mod 2^64)
Add(a, b) ==
    LET s1 == a[1] + b[1]
        s2 == a[2] + b[2] + (s1 \div B)
        s3 == a[3] + b[3] + (s2 \div B)
        s4 == a[4] + b[4] + (s3 \div B)
    IN  <<s1 % B, s2 % B, s3 % B, s4 % B>>

\* a - b  (mod 2^64)
Sub(a, b) ==
    LET s1 == B + a[1] - b[1]
        s2 == B + a[2] - b[2] - (1 - (s1 \div B))
        s3 == B + a[3] - b[3] - (1 - (s2 \div B))
        s4 == B + a[4] - b[4] - (1 - (s3 \div B))
    IN  <<s1 % B, s2 % B, s3 % B, s4 % B>>

\* a < b, unsigned
Lt(a, b) ==
    IF a[4] # b[4] THEN a[4] < b[4]
    ELSE IF a[3] # b[3] THEN a[3] < b[3]
    ELSE IF a[2] # b[2] THEN a[2] < b[2]
    ELSE a[1] < b[1]

\* a * c  (mod 2^64), for 0 <= c < 2^15
MulSmall(a, c) ==
    LET p1 == a[1] * c
        p2 == a[2] * c + (p1 \div B)
        p3 == a[3] * c + (p2 \div B)
        p4 == a[4] * c + (p3 \div B)
    IN  <<p1 % B, p2 % B, p3 % B, p4 % B>>

\* a * n  (mod 2^64), for 0 <= n < 2^31
RECURSIVE Mul(_, _)
Mul(a, n) ==
    IF n < 2^15 THEN MulSmall(a, n)
    ELSE Add(MulSmall(a, n % 2^15),
             MulSmall(MulSmall(Mul(a, n \div 2^15), 2^14), 2))

\* a >> s, for 0 < s < 16
Shr(a, s) ==
    LET lo == 2^s
        hi == 2^(16 - s)
    IN  <<(a[1] \div lo) + (a[2] % lo) * hi,
          (a[2] \div lo) + (a[3] % lo) * hi,
          (a[3] \div lo) + (a[4] % lo) * hi,
          a[4] \div lo>>

\* bit i of a, 0 <= i < 64
Bit(a, i) == (a[(i \div 16) + 1] \div 2^(i % 16)) % 2

\* index of the highest bit that can be set in a (skips zero limbs)
TopBit(a) ==
    IF a[4] # 0 THEN 63 ELSE IF a[3] # 0 THEN 47 ELSE IF a[2] # 0 THEN 31 ELSE 15

\* one step of binary long division: bit i of a is brought down into the
\* remainder qr[2] (< b) and the quotient qr[1] gets its next bit
DivStep(a, b, i, qr) ==
    LET r2 == Add(Add(qr[2], qr[2]), <<Bit(a, i), 0, 0, 0>>)
        ge == qr[2][4] >= 2^15 \/ ~Lt(r2, b)
    IN  <<Add(Add(qr[1], qr[1]), <<IF ge THEN 1 ELSE 0, 0, 0, 0>>),
          IF ge THEN Sub(r2, b) ELSE r2>>

\* the steps for bits hi down to lo, in that order (the range is halved so
\* that the evaluation does not nest one level per bit)
RECURSIVE DivBits(_, _, _, _, _)
DivBits(a, b, hi, lo, qr) ==
    IF hi = lo THEN DivStep(a, b, hi, qr)
    ELSE LET mid == (hi + lo + 1) \div 2
             upper == DivBits(a, b, hi, mid, qr)
         IN  IF upper[1][1] < 0 THEN upper ELSE DivBits(a, b, mid - 1, lo, upper)

\* one 16-bit limb of a short division by d < 2^27, four bits at a time:
\* r is the remainder carried in; result <<quotient limb, remainder>>
ShortDivLimb(r, limb, d) ==
    LET n4 == r * 16 + ((limb \div 4096) % 16)
        n3 == (n4 % d) * 16 + ((limb \div 256) % 16)
        n2 == (n3 % d) * 16 + ((limb \div 16) % 16)
        n1 == (n2 % d) * 16 + (limb % 16)
    IN  <<(n4 \div d) * 4096 + (n3 \div d) * 256 + (n2 \div d) * 16 + (n1 \div d),
          n1 % d>>

\* a / d for a divisor 0 < d < 2^27 given as an integer
DivSmall(a, d) ==
    LET x4 == ShortDivLimb(0, a[4], d)
        x3 == ShortDivLimb(x4[2], a[3], d)
        x2 == ShortDivLimb(x3[2], a[2], d)
        x1 == ShortDivLimb(x2[2], a[1], d)
    IN  <<x1[1], x2[1], x3[1], x4[1]>>

\* a / b, unsigned, truncating; b # 0
Div(a, b) ==
    IF Lt(a, b) THEN Zero
    ELSE IF b[4] = 0 /\ b[3] = 0 /\ b[2] < 2^11 THEN DivSmall(a, b[2] * B + b[1])
    ELSE DivBits(a, b, TopBit(a), 0, <<Zero, Zero>>)[1]

\* (long)x / 2: x read as a signed 64-bit value, division truncating to zero
SDivTwo(x) ==
    IF x[4] >= 2^15 THEN Sub(Zero, Shr(Sub(Zero, x), 1)) ELSE Shr(x, 1)

\* ------------------------------------------------------------------------
\* Program constants
\* ------------------------------------------------------------------------
PIT_TICK_RATE == 1193182

DEFAULT_FREQ == 2500000

TIMES == 100

MAX_QUICK_PIT_MS == 25

MAX_QUICK_PIT_ITERATIONS == ((MAX_QUICK_PIT_MS * PIT_TICK_RATE) \div 1000) \div 256

\* pit_expect_msb: the poll ceiling of "while (count++ < 50000)"
POLL_CEILING == 50000

\* pit_expect_msb: the threshold of "return count > 6"
MIN_COUNT == 6

\* quick_pit_calibrate: the shift of "d1 + d2 >= delta >> 11"
ERROR_SHIFT == 11

\* enum Timer_id
ID_NONE == -1

ID_HPET0 == 0

ID_HPET1 == 1

ID_PIT == 2

ID_PM == 3

\* ------------------------------------------------------------------------
\* The PIT as one calibration attempt sees it.  A hardware script hw is a
\* PIT whose MSB steps every hw.dt cycles of the counter, from hw.t0 on:
\*   hw.m0, hw.m   on how many consecutive polls pit_verify_msb returned
\*                 true at the baseline (MSB 0xFF) and at every later step
\*                 (POLL_CEILING stands for "never false");
\*   hw.d1, hw.d2  the cycles between the last true poll and the read_tsc()
\*                 after the loop, at the baseline and at every later step;
\*   hw.fin        what the closing pit_verify_msb(0xFE - i) returns.
\* ------------------------------------------------------------------------
UniformHw(t0, m0, m, dt, d1, d2, fin) ==
    [t0 |-> t0, m0 |-> m0, m |-> m, dt |-> dt, d1 |-> d1, d2 |-> d2, fin |-> fin]

\* on how many consecutive polls pit_verify_msb(0xFF - k) returns true
HwPolls(hw, k) == IF k = 0 THEN hw.m0 ELSE hw.m

\* read_tsc() after the last true poll for MSB 0xFF - k
HwAnchor(hw, k) == Add(hw.t0, Mul(hw.dt, k))

\* read_tsc() after the polling loop for MSB 0xFF - k
HwAfter(hw, k) == Add(HwAnchor(hw, k), IF k = 0 THEN hw.d1 ELSE hw.d2)

\* pit_verify_msb(0xFE - k), the closing check
HwFinal(hw, k) == hw.fin

\* count when the polling loop of pit_expect_msb is left after m true polls:
\* a false poll at poll m + 1 leaves count = m + 1, 50000 true polls leave
\* the loop by its condition "count++ < 50000" with count = 50001
poll_count(m) == IF m < POLL_CEILING THEN m + 1 ELSE POLL_CEILING + 1

\* what pit_expect_msb yields after m true polls, the last one followed by
\* read_tsc() = anchor, with read_tsc() = after behind the loop
expect_result(m, anchor, after) ==
    [ok |-> poll_count(m) > MIN_COUNT,
     tsc |-> IF m = 0 THEN Zero ELSE anchor,
     delta |-> Sub(after, IF m = 0 THEN Zero ELSE anchor)]

\* pit_expect_msb(0xFF - k, &tsc, &delta)
pit_expect_msb(hw, k) == expect_result(HwPolls(hw, k), HwAnchor(hw, k), HwAfter(hw, k))

\* the code after "success:": delta is t2 - t1, i the number of MSB steps
calibrate_result(delta, d1, d2, i) ==
    Div(Mul(Add(delta, SDivTwo(Sub(d2, d1))), PIT_TICK_RATE), U64(i * 256 * 1000))

\* step_decide without the closing pit_verify_msb(0xFE - i)
step_decide_nofinal(hw, i, tsc, d1, s) ==
    IF ~s.ok THEN [done |-> TRUE, ret |-> Zero]
    ELSE IF ~Lt(Add(d1, s.delta), Shr(Sub(s.tsc, tsc), ERROR_SHIFT))
         THEN [done |-> FALSE, ret |-> Zero]
    ELSE [done |-> TRUE, ret |-> calibrate_result(Sub(s.tsc, tsc), d1, s.delta, i)]

\* one pass of the for loop of quick_pit_calibrate at step i, once
\* pit_expect_msb(0xFF - i, &delta, &d2) has yielded s; tsc and d1 are the
\* baseline's anchor and jitter.  done: the function returns ret (break or
\* goto success); otherwise the loop goes on with i + 1
step_decide(hw, i, tsc, d1, s) ==
    IF ~s.ok THEN [done |-> TRUE, ret |-> Zero]
    ELSE IF ~Lt(Add(d1, s.delta), Shr(Sub(s.tsc, tsc), ERROR_SHIFT))
         THEN [done |-> FALSE, ret |-> Zero]
    ELSE IF ~HwFinal(hw, i) THEN [done |-> TRUE, ret |-> Zero]
    ELSE [done |-> TRUE, ret |-> calibrate_result(Sub(s.tsc, tsc), d1, s.delta, i)]

calibrate_step(hw, i, tsc, d1) == step_decide(hw, i, tsc, d1, pit_expect_msb(hw, i))

\* the loop from the pass `first` on, for the passes up to hi
RECURSIVE calibrate_loop(_, _, _, _, _)
loop_rest(hw, next, hi, tsc, d1, first) ==
    IF first.done THEN first ELSE calibrate_loop(hw, next, hi, tsc, d1)

\* the passes for i = lo..hi, in that order, up to the first that is done
\* (the range is halved so that the evaluation does not nest one level per
\* pass)
calibrate_loop(hw, lo, hi, tsc, d1) ==
    IF lo = hi THEN calibrate_step(hw, lo, tsc, d1)
    ELSE loop_rest(hw, ((lo + hi) \div 2) + 1, hi, tsc, d1,
                   calibrate_loop(hw, lo, (lo + hi) \div 2, tsc, d1))

\* quick_pit_calibrate() once the baseline pit_expect_msb(0xFF, &tsc, &d1)
\* has yielded base
from_baseline(hw, base) ==
    IF base.ok
    THEN calibrate_loop(hw, 1, MAX_QUICK_PIT_ITERATIONS, base.tsc, base.delta).ret
    ELSE Zero

\* quick_pit_calibrate(): the frequency in kHz, Zero for "could not calibrate"
quick_pit_calibrate(hw) == from_baseline(hw, pit_expect_msb(hw, 0))

\* The PIT over one call of tsc_calibrate: rig.fails attempts see the script
\* rig.bad, every later attempt sees rig.good.
HwAttempt(rig, n) == IF n <= rig.fails THEN rig.bad ELSE rig.good

\* the loop state after "cpu_freq = quick_pit_calibrate()" has assigned f
retry_assign(st, f) ==
    [i |-> st.i - 1, cpu_freq |-> f, attempts |-> st.attempts + 1, done |-> f # Zero]

\* one evaluation of "while (--i > 0) { if ((cpu_freq = quick_pit_calibrate()))
\* break; }": st.i is i before the decrement, st.attempts the calls made so
\* far; done: the loop is left with st.i and st.cpu_freq as they are
retry_step(st, rig) ==
    IF ~(st.i - 1 > 0) THEN [st EXCEPT !.i = st.i - 1, !.done = TRUE]
    ELSE retry_assign(st, quick_pit_calibrate(HwAttempt(rig, st.attempts + 1)))

\* the loop from the state `first` on, for at most k more evaluations
RECURSIVE calibrate_retry(_, _, _)
retry_rest(first, rig, k) ==
    IF first.done THEN first ELSE calibrate_retry(first, rig, k)

\* up to k evaluations of the loop, to the first that leaves it (k is
\* halved so that the evaluation does not nest one level per attempt)
calibrate_retry(st, rig, k) ==
    IF k = 1 THEN retry_step(st, rig)
    ELSE retry_rest(calibrate_retry(st, rig, k \div 2), rig, k - (k \div 2))

\* calibrate_finish with the default returned but not stored in cpu_freq
calibrate_finish_uncached(l) ==
    IF l.i = 0
    THEN [cpu_freq |-> Zero, ret |-> Mul(U64(DEFAULT_FREQ), 1000),
          attempts |-> l.attempts, notices |-> 1, attempt |-> l.cpu_freq]
    ELSE [cpu_freq |-> l.cpu_freq, ret |-> Mul(l.cpu_freq, 1000),
          attempts |-> l.attempts, notices |-> 0, attempt |-> l.cpu_freq]

\* calibrate_finish without the fallback "if (!i)"
calibrate_finish_nodefault(l) ==
    [cpu_freq |-> l.cpu_freq, ret |-> Mul(l.cpu_freq, 1000),
     attempts |-> l.attempts, notices |-> 0, attempt |-> l.cpu_freq]

\* tsc_calibrate() behind the loop, left in state l: "if (!i) { cpu_freq =
\* DEFAULT_FREQ; cprintf(...); }" and "return cpu_freq * 1000"
calibrate_finish(l) ==
    IF l.i = 0
    THEN [cpu_freq |-> U64(DEFAULT_FREQ), ret |-> Mul(U64(DEFAULT_FREQ), 1000),
          attempts |-> l.attempts, notices |-> 1, attempt |-> l.cpu_freq]
    ELSE [cpu_freq |-> l.cpu_freq, ret |-> Mul(l.cpu_freq, 1000),
          attempts |-> l.attempts, notices |-> 0, attempt |-> l.cpu_freq]

\* tsc_calibrate without the test "if (!cpu_freq)": it calibrates at every call
tsc_calibrate_nocheck(cf, rig) ==
    calibrate_finish(calibrate_retry([i |-> TIMES, cpu_freq |-> Zero, attempts |-> 0,
                                      done |-> FALSE], rig, TIMES))

\* tsc_calibrate() called with the static cpu_freq = cf: the new cpu_freq,
\* the value returned, the quick_pit_calibrate calls made, the notices
\* printed and what the last quick_pit_calibrate call returned
tsc_calibrate(cf, rig) ==
    IF cf = Zero
    THEN calibrate_finish(calibrate_retry([i |-> TIMES, cpu_freq |-> cf, attempts |-> 0,
                                           done |-> FALSE], rig, TIMES))
    ELSE [cpu_freq |-> cf, ret |-> Mul(cf, 1000), attempts |-> 0, notices |-> 0,
          attempt |-> Zero]

\* ------------------------------------------------------------------------
\* Bounds and input sets of the model
\* ------------------------------------------------------------------------
\* how many times the cycle counter is advanced between calls
MaxTicks == 2

\* how many consecutive start("pit")/stop pairs the history records
MaxPairs == 2

\* DEFAULT_FREQ * 1000, the frequency tsc_calibrate falls back to
DefaultHz == Mul(U64(DEFAULT_FREQ), 1000)

\* timer names passed by callers
Names == {"pit", "hpet0", "hpet1", "pm", "bogus"}

\* cycles that pass between two calls
TickSet == {U64(1), DefaultHz}

\* cycles one quick_pit_calibrate attempt takes: its budget of
\* MAX_QUICK_PIT_MS on a 2.5 GHz counter
AttemptCycles == U64(MAX_QUICK_PIT_MS * DEFAULT_FREQ)

\* what timer_hpet0/timer_hpet1/timer_acpipm .get_cpu_freq() may return
HpetFreqs == {U64(14318180), Mul(U64(3000000), 1000)}

\* what a division by zero may do: trap (#DE), or go on with some quotient
DivZeroOutcomes == {"trap", "zero", "ones"}

\* PIT scripts on which an attempt returns 0: too few polls at the baseline,
\* and a closing check that fails
BadBaseline(t0) == UniformHw(t0, 3, 100, U64(536380), U64(100), U64(100), TRUE)

BadFinal(t0) == UniformHw(t0, 100, 100, U64(536380), U64(100), U64(100), FALSE)

\* PIT scripts on which an attempt succeeds: a 2.5 GHz counter accepted at
\* i = 1, a 1 GHz counter accepted at i = 3, and the step for which
\* delta * PIT_TICK_RATE is 2^64 - 2, the largest value an attempt returns
GoodFast(t0) == UniformHw(t0, 100, 100, U64(536380), U64(100), U64(100), TRUE)

GoodSlow(t0) == UniformHw(t0, 100, 100, U64(214552), U64(120), U64(100), TRUE)

GoodHuge(t0) ==
    UniformHw(t0, 100, 100, <<31601, 27704, 36377, 10241>>, U64(100), U64(100), TRUE)

Rig(fails, bad, good) == [fails |-> fails, bad |-> bad, good |-> good]

\* The PIT over one calibration: it works at once; its first attempt is
\* spoiled; only the last attempt the loop can make works; no attempt the
\* loop makes works (the next one would); it never works.
Rigs(t0) ==
    {Rig(0, BadBaseline(t0), GoodFast(t0)),
     Rig(0, BadBaseline(t0), GoodSlow(t0)),
     Rig(0, BadBaseline(t0), GoodHuge(t0)),
     Rig(1, BadBaseline(t0), GoodFast(t0)),
     Rig(1, BadFinal(t0), GoodSlow(t0)),
     Rig(TIMES - 2, BadBaseline(t0), GoodSlow(t0)),
     Rig(TIMES - 1, BadBaseline(t0), GoodFast(t0)),
     Rig(TIMES + 1, BadFinal(t0), GoodFast(t0))}

\* the PIT of a call that is not enumerated: it works at the first attempt
QuietRig(t0) == Rig(0, BadBaseline(t0), GoodFast(t0))

\* the hardware of a call that asks no source for its frequency
QuietHw(t0) == [rig |-> QuietRig(t0), other |-> U64(1), divzero |-> "trap"]

\* The hardware as one call may see it.  Only what the call can read is
\* enumerated: the PIT while the cache is empty, the source's frequency for
\* the other timers, the outcome of a division by zero for no source.
HwFor(asks, t_id, cf, t0) ==
    IF ~asks THEN {QuietHw(t0)} ELSE
    [rig : IF t_id = ID_PIT /\ cf = Zero THEN Rigs(t0) ELSE {QuietRig(t0)},
     other : IF t_id \in {ID_HPET0, ID_HPET1, ID_PM} THEN HpetFreqs ELSE {U64(1)},
     divzero : IF t_id = ID_NONE THEN DivZeroOutcomes ELSE {"trap"}]

\* ------------------------------------------------------------------------
\* State
\* ------------------------------------------------------------------------
VARIABLES
    timer_started,  \* static bool timer_started
    timer_id,       \* static enum Timer_id timer_id
    timer,          \* static uint64_t timer: read_tsc() at the last start
    cpu_freq,       \* static uint64_t cpu_freq of tsc_calibrate, kHz, 0 = empty
    tsc,            \* the cycle counter, what read_tsc() returns now
    out,            \* the lines the last call printed with cprintf
    notices,        \* how many "Can't calibrate pit timer" lines were printed
    halted,         \* a divide error stopped the kernel
    last,           \* the last call: what was called, which source it asked
                    \* for its frequency, what it got, the attempts made
    nticks,         \* how often the counter was advanced between calls
    all_failed,     \* a calibration ran and every attempt it made returned 0
    first_ret,      \* what the first call of tsc_calibrate returned
    pairs,          \* the latest run of consecutive timer_start("pit") /
                    \* timer_stop pairs: for each, the attempts its stop
                    \* made and the last line its stop printed
    after_bogus,    \* the call before the last was a timer_start that
                    \* reported an unsupported timer and left the session Idle
    resolved,       \* id: the id resolved by the latest timer_start that
                    \* got past the id check, ID_NONE once timer_stop was
                    \* called; over: that timer_start found the session
                    \* started, and it was the last call or the one before
                    \* a timer_stop that was the last call
    cal             \* a call of tsc_calibrate in progress, step by step

vars == <<timer_started, timer_id, timer, cpu_freq, tsc, out, notices, halted,
          last, nticks, all_failed, first_ret, pairs, after_bogus, resolved, cal>>

session == <<timer_started, timer_id, timer>>

\* ------------------------------------------------------------------------
\* Console lines
\* ------------------------------------------------------------------------
Line(kind, name, neg, mag) == [kind |-> kind, name |-> name, neg |-> neg, mag |-> mag]

\* cprintf("Can't calibrate pit timer. Using default frequency\n")
NoticeLine == Line("notice", "", FALSE, Zero)

\* print_timer_error(): cprintf("Timer Error\n")
print_timer_error == Line("timer_error", "", FALSE, Zero)

\* print_time(unsigned seconds): the uint64_t argument is converted to a
\* 32-bit unsigned and printed with %u
print_time(seconds) == Line("time", "", FALSE, <<seconds[1], seconds[2], 0, 0>>)

\* cprintf("%ld\n", f): the uint64_t is printed as a signed long
print_freq(f) ==
    IF f[4] >= 2^15 THEN Line("freq", "", TRUE, Sub(Zero, f))
    ELSE Line("freq", "", FALSE, f)

\* cprintf("timer_start: unsupported timer %s\n", name)
print_unsupported_start(name) == Line("unsupported_start", name, FALSE, Zero)

\* cprintf("timer_cpu_frequency: unsupported timer %s\n", name)
print_unsupported_freq(name) == Line("unsupported_freq", name, FALSE, Zero)

\* n notice lines
Notices(n) == [k \in 1..n |-> NoticeLine]

\* ------------------------------------------------------------------------
\* Timer lookup and dispatch
\* ------------------------------------------------------------------------
\* strcmp(a, b) == 0
StrEq(a, b) == a = b

\* get_timer_id with "pm" resolved to ID_PM
get_timer_id_pm(name) ==
    IF StrEq(name, "hpet0") THEN ID_HPET0
    ELSE IF StrEq(name, "hpet1") THEN ID_HPET1
    ELSE IF StrEq(name, "pit") THEN ID_PIT
    ELSE IF StrEq(name, "pm") THEN ID_PM
    ELSE ID_NONE

get_timer_id(name) ==
    IF StrEq(name, "hpet0") THEN ID_HPET0
    ELSE IF StrEq(name, "hpet1") THEN ID_HPET1
    ELSE IF StrEq(name, "pit") THEN ID_PIT
    ELSE IF StrEq(name, "pm") THEN ID_NONE
    ELSE ID_NONE

\* timer_hpet0, timer_hpet1 and timer_acpipm are defined outside kern/tsc.c:
\* their get_cpu_freq() returns the frequency the hardware hw reports
hpet_get_cpu_freq(hw) == hw.other

\* what a get_cpu_freq() that leaves tsc_calibrate's cache alone yields
Plain(cf, f) ==
    [cpu_freq |-> cf, ret |-> f, attempts |-> 0, notices |-> 0, attempt |-> Zero]

\* get_cpu_freq_by_id(t_id) with tsc_calibrate's cache at cf: the value
\* returned (ret), the cache afterwards, the attempts made, the notices
get_cpu_freq_by_id(t_id, cf, hw) ==
    CASE t_id = ID_HPET0 -> Plain(cf, hpet_get_cpu_freq(hw))
      [] t_id = ID_HPET1 -> Plain(cf, hpet_get_cpu_freq(hw))
      [] t_id = ID_PIT -> tsc_calibrate(cf, hw.rig)
      [] t_id = ID_PM -> Plain(cf, hpet_get_cpu_freq(hw))
      [] OTHER -> Plain(cf, Zero)

\* the cycle counter after a frequency query that made `attempts` attempts
AfterQuery(t, attempts, hw) == Add(t, MulSmall(AttemptCycles, attempts))

\* ------------------------------------------------------------------------
\* The three calls.  s is the state a call finds:
\* [timer_started, timer_id, timer, cpu_freq, tsc]; the result holds the
\* state it leaves, the lines it printed and what it did on the way.
\* ------------------------------------------------------------------------
State ==
    [timer_started |-> timer_started, timer_id |-> timer_id, timer |-> timer,
     cpu_freq |-> cpu_freq, tsc |-> tsc]

\* what a call did besides changing the state: the source whose frequency
\* it asked for (asked = FALSE: none), the frequency it got, the attempts
\* and notices of tsc_calibrate and what its last attempt returned, the
\* elapsed ticks it divided
Did(asked, source, q, ticks) ==
    [asked |-> asked, source |-> source, freq |-> q.ret, attempts |-> q.attempts,
     notices |-> q.notices, attempt |-> q.attempt, ticks |-> ticks]

Nothing == Did(FALSE, ID_NONE, Plain(Zero, Zero), Zero)

\* timer_start that marks the session started before it checks the id
timer_start_body_eager(name, s) ==
    IF get_timer_id(name) = ID_NONE
    THEN [s EXCEPT !.timer_id = ID_NONE, !.timer_started = TRUE]
           @@ [out |-> <<print_unsupported_start(name)>>, did |-> Nothing,
               halted |-> FALSE]
    ELSE [s EXCEPT !.timer_id = get_timer_id(name), !.timer_started = TRUE,
                   !.timer = s.tsc]
           @@ [out |-> <<>>, did |-> Nothing, halted |-> FALSE]

\* timer_start that leaves a started session as it is
timer_start_body_keepfirst(name, s) ==
    IF get_timer_id(name) = ID_NONE
    THEN [s EXCEPT !.timer_id = ID_NONE]
           @@ [out |-> <<print_unsupported_start(name)>>, did |-> Nothing,
               halted |-> FALSE]
    ELSE IF s.timer_started
    THEN s @@ [out |-> <<>>, did |-> Nothing, halted |-> FALSE]
    ELSE [s EXCEPT !.timer_id = get_timer_id(name), !.timer_started = TRUE,
                   !.timer = s.tsc]
           @@ [out |-> <<>>, did |-> Nothing, halted |-> FALSE]

timer_start_body(name, s) ==
    LET id == get_timer_id(name)
    IN  IF id = ID_NONE
        THEN [s EXCEPT !.timer_id = id]
               @@ [out |-> <<print_unsupported_start(name)>>, did |-> Nothing,
                   halted |-> FALSE]
        ELSE [s EXCEPT !.timer_id = id, !.timer_started = TRUE, !.timer = s.tsc]
               @@ [out |-> <<>>, did |-> Nothing, halted |-> FALSE]

\* timer_stop past "if (!timer_started)": ticks is read_tsc() - timer and q
\* what get_cpu_freq_by_id(timer_id) yielded
stop_running(s, hw, ticks, q) ==
    IF q.ret = Zero /\ hw.divzero = "trap"
    THEN \* divide error: the kernel stops inside timer_stop
         [s EXCEPT !.cpu_freq = q.cpu_freq, !.tsc = AfterQuery(s.tsc, q.attempts, hw)]
           @@ [out |-> Notices(q.notices), did |-> Did(TRUE, s.timer_id, q, ticks),
               halted |-> TRUE]
    ELSE [s EXCEPT !.cpu_freq = q.cpu_freq, !.tsc = AfterQuery(s.tsc, q.attempts, hw),
                   !.timer_started = FALSE, !.timer_id = ID_NONE]
           @@ [out |-> Notices(q.notices) \o
                       <<print_time(IF q.ret # Zero THEN Div(ticks, q.ret)
                                    ELSE IF hw.divzero = "zero" THEN Zero ELSE MaxU64)>>,
               did |-> Did(TRUE, s.timer_id, q, ticks), halted |-> FALSE]

\* timer_stop without the test "if (!timer_started)"
timer_stop_body_noguard(s, hw) ==
    stop_running(s, hw, Sub(s.tsc, s.timer),
                 get_cpu_freq_by_id(s.timer_id, s.cpu_freq, hw))

\* timer_stop with read_tsc() taken after the frequency query
stop_late_read(s, hw, q) == stop_running(s, hw, Sub(AfterQuery(s.tsc, q.attempts, hw), s.timer), q)

timer_stop_body_late(s, hw) ==
    IF ~s.timer_started
    THEN s @@ [out |-> <<print_timer_error>>, did |-> Nothing, halted |-> FALSE]
    ELSE stop_late_read(s, hw, get_cpu_freq_by_id(s.timer_id, s.cpu_freq, hw))

timer_stop_body(s, hw) ==
    IF ~s.timer_started
    THEN s @@ [out |-> <<print_timer_error>>, did |-> Nothing, halted |-> FALSE]
    ELSE stop_running(s, hw, Sub(s.tsc, s.timer),
                      get_cpu_freq_by_id(s.timer_id, s.cpu_freq, hw))

\* timer_cpu_frequency past the lookup: q is what get_cpu_freq_by_id(id)
\* yielded
report_frequency(s, hw, id, q) ==
    [s EXCEPT !.cpu_freq = q.cpu_freq, !.tsc = AfterQuery(s.tsc, q.attempts, hw)]
      @@ [out |-> Notices(q.notices) \o <<print_freq(q.ret)>>,
          did |-> Did(TRUE, id, q, Zero), halted |-> FALSE]

\* timer_cpu_frequency that keeps the id in the static timer_id, as
\* timer_start does
timer_cpu_frequency_body_static(name, s, hw) ==
    IF get_timer_id(name) = ID_NONE
    THEN [s EXCEPT !.timer_id = ID_NONE]
           @@ [out |-> <<print_unsupported_freq(name)>>, did |-> Nothing,
               halted |-> FALSE]
    ELSE report_frequency([s EXCEPT !.timer_id = get_timer_id(name)], hw,
                          get_timer_id(name),
                          get_cpu_freq_by_id(get_timer_id(name), s.cpu_freq, hw))

timer_cpu_frequency_body(name, s, hw) ==
    IF get_timer_id(name) = ID_NONE
    THEN s @@ [out |-> <<print_unsupported_freq(name)>>, did |-> Nothing,
               halted |-> FALSE]
    ELSE report_frequency(s, hw, get_timer_id(name),
                          get_cpu_freq_by_id(get_timer_id(name), s.cpu_freq, hw))

\* ------------------------------------------------------------------------
\* Actions
\* ------------------------------------------------------------------------
\* the run of consecutive start("pit")/stop pairs after the call op(name)
\* that made `attempts` attempts and printed the lines `lines`
NextPairs(op, name, attempts, lines) ==
    IF op = "timer_stop"
    THEN IF last.op = "timer_start" /\ last.name = "pit" /\ lines # <<>>
         THEN (IF Len(pairs) < MaxPairs THEN pairs ELSE Tail(pairs))
                \o <<[attempts |-> attempts, line |-> lines[Len(lines)]]>>
         ELSE <<>>
    ELSE IF op = "timer_start" /\ name = "pit" /\ last.op = "timer_stop" THEN pairs
    ELSE <<>>

\* the call op(name) returns (or traps) with result r on the hardware hw
Call(op, name, r, hw) ==
    /\ timer_started' = r.timer_started
    /\ timer_id' = r.timer_id
    /\ timer' = r.timer
    /\ cpu_freq' = r.cpu_freq
    /\ tsc' = r.tsc
    /\ out' = r.out
    /\ notices' = notices + r.did.notices
    /\ halted' = r.halted
    /\ last' = [op |-> op, name |-> name, asked |-> r.did.asked,
                source |-> r.did.source, freq |-> r.did.freq,
                attempts |-> r.did.attempts]
    \* the loop ends at the first attempt that returns nonzero: every attempt
    \* returned 0 exactly if the last one did
    /\ all_failed' = (all_failed \/ (r.did.attempts > 0 /\ r.did.attempt = Zero))
    /\ first_ret' = IF first_ret = Zero /\ r.did.asked /\ r.did.source = ID_PIT
                    THEN r.did.freq ELSE first_ret
    /\ pairs' = NextPairs(op, name, r.did.attempts, r.out)
    /\ after_bogus' = (/\ last.op = "timer_start"
                       /\ out = <<print_unsupported_start(last.name)>>
                       /\ ~timer_started)
    /\ resolved' = IF op = "timer_start" /\ get_timer_id(name) # ID_NONE
                   THEN [id |-> get_timer_id(name), over |-> timer_started]
                   ELSE IF op = "timer_stop"
                   THEN [id |-> ID_NONE,
                         over |-> resolved.over /\ last.op = "timer_start"]
                   ELSE [resolved EXCEPT !.over = FALSE]
    /\ UNCHANGED <<nticks, cal>>

timer_start(name) ==
    /\ ~halted
    /\ Call("timer_start", name, timer_start_body(name, State), QuietHw(tsc))

timer_stop ==
    /\ ~halted
    /\ \E hw \in HwFor(timer_started, timer_id, cpu_freq, tsc) :
          Call("timer_stop", "", timer_stop_body(State, hw), hw)

timer_cpu_frequency(name) ==
    /\ ~halted
    /\ \E hw \in HwFor(get_timer_id(name) # ID_NONE, get_timer_id(name), cpu_freq, tsc) :
          Call("timer_cpu_frequency", name, timer_cpu_frequency_body(name, State, hw), hw)

\* time passes between two calls
Tick(d) ==
    /\ ~halted
    /\ nticks < MaxTicks
    /\ tsc' = Add(tsc, d)
    /\ nticks' = nticks + 1
    /\ UNCHANGED <<timer_started, timer_id, timer, cpu_freq, out, notices, halted,
                   last, all_failed, first_ret, pairs, after_bogus, resolved, cal>>

\* the session and the cache as the kernel image holds them at boot
SessionInit ==
    /\ timer_started = FALSE
    /\ timer_id = ID_NONE
    /\ timer = Zero
    /\ cpu_freq = Zero
    /\ tsc = Zero
    /\ out = <<>>
    /\ notices = 0
    /\ halted = FALSE
    /\ last = [op |-> "none", name |-> "", asked |-> FALSE, source |-> ID_NONE,
               freq |-> Zero, attempts |-> 0]
    /\ nticks = 0
    /\ all_failed = FALSE
    /\ first_ret = Zero
    /\ pairs = <<>>
    /\ after_bogus = FALSE
    /\ resolved = [id |-> ID_NONE, over |-> FALSE]

\* no call of tsc_calibrate is followed step by step
CalIdle == [pc |-> "idle"]

Init ==
    /\ SessionInit
    /\ cal = CalIdle

Next ==
    \/ \E name \in Names : timer_start(name)
    \/ timer_stop
    \/ \E name \in Names : timer_cpu_frequency(name)
    \/ \E d \in TickSet : Tick(d)

Spec == Init /\ [][Next]_vars

\* ------------------------------------------------------------------------
\* tsc_calibrate() step by step.  One call on an empty cache is followed
\* from "while (--i > 0)" to its return: every poll of pit_expect_msb, every
\* pass of the for loop of quick_pit_calibrate and every attempt is a step.
\* cal holds the locals of the three functions:
\*   pc      "loop": at the test of while (--i > 0); "poll": at the test of
\*           while (count++ < 50000); "sampled": pit_expect_msb has returned;
\*           "ret": quick_pit_calibrate has returned f; "exit": behind the
\*           while loop; "returned": tsc_calibrate has returned ret
\*   i, n    tsc_calibrate's i, and the calls of quick_pit_calibrate so far
\*   k       quick_pit_calibrate's i, 0 during the baseline sample
\*   count, etsc, edelta, ok   pit_expect_msb's count and tsc, *deltap and
\*           its return value
\*   qtsc, d1   quick_pit_calibrate's tsc and d1
\* and what happened on the way:
\*   polls, trues   the calls of pit_verify_msb in this pit_expect_msb and
\*           how many of them returned true
\*   expects  the calls of pit_expect_msb in this attempt
\*   base, lost, held, final, spent   the baseline sample succeeded; a later
\*           sample failed; the steps at which the error test held; what the
\*           closing pit_verify_msb returned; the for loop ran out
\*   ceiling, full   some pit_expect_msb of the call made POLL_CEILING
\*           polls; some attempt made MAX_QUICK_PIT_ITERATIONS + 1 calls of
\*           pit_expect_msb
\* The PIT is free at every poll within the input bounds below; the counter
\* follows the script cal.hw.
\* ------------------------------------------------------------------------
\* how many polls of one pit_expect_msb call the PIT may answer freely;
\* after them it mismatches, unless it is stuck
FreePolls == 7

\* the attempts whose polls are free: the first and the last the loop can
\* make; in the others the PIT never matches
FreeAttempts == {1, TIMES - 1}

\* a PIT too noisy for the error test to hold at any step
Noisy(t0) == UniformHw(t0, 100, 100, U64(536380), U64(20000), U64(20000), TRUE)

\* a counter that jumps by 15,460,126,010,709 cycles per MSB step:
\* the smallest delta for which delta * PIT_TICK_RATE passes 2^64
Jumpy(t0) == UniformHw(t0, 100, 100, <<44373, 38737, 3599, 0>>, U64(100), U64(100), TRUE)

\* the counter scripts, and the MSB step at which the PIT is stuck in the
\* first attempt (-1: at none)
CalScripts ==
    {[hw |-> GoodFast(Zero), stuck |-> -1],
     [hw |-> GoodSlow(Zero), stuck |-> -1],
     [hw |-> Noisy(Zero), stuck |-> -1],
     [hw |-> Noisy(Zero), stuck |-> 0],
     [hw |-> Jumpy(Zero), stuck |-> -1]}

\* what the PIT may answer to the next pit_verify_msb
VerifyAnswers ==
    IF cal.n \notin FreeAttempts THEN {FALSE}
    ELSE IF cal.trues < FreePolls THEN BOOLEAN
    ELSE {cal.n = 1 /\ cal.stuck = cal.k}

\* pit_expect_msb: "while (count++ < 50000)" goes on at count
poll_again(count) == count < POLL_CEILING

\* pit_expect_msb: "return count > 6" with five polls taken for enough
enough_polls_five(count) == count >= MIN_COUNT

\* pit_expect_msb: "return count > 6"
enough_polls(count) == count > MIN_COUNT

\* quick_pit_calibrate: "i <= MAX_QUICK_PIT_ITERATIONS" with one pass more
more_steps_loose(i) == i <= MAX_QUICK_PIT_ITERATIONS + 1

\* quick_pit_calibrate: "i <= MAX_QUICK_PIT_ITERATIONS"
more_steps(i) == i <= MAX_QUICK_PIT_ITERATIONS

\* quick_pit_calibrate: the error test "d1 + d2 >= delta >> 11" does not
\* send the loop on
WithinError(d1, d2, delta) == Lt(Add(d1, d2), Shr(delta, ERROR_SHIFT))

CalStart(script) ==
    [pc |-> "loop", hw |-> script.hw, stuck |-> script.stuck,
     i |-> TIMES, n |-> 0, k |-> 0,
     count |-> 0, etsc |-> Zero, edelta |-> Zero, ok |-> FALSE,
     qtsc |-> Zero, d1 |-> Zero, f |-> Zero, ret |-> Zero,
     polls |-> 0, trues |-> 0, expects |-> 0,
     base |-> FALSE, lost |-> FALSE, held |-> {}, final |-> "none", spent |-> FALSE,
     ceiling |-> FALSE, full |-> FALSE]

\* the session variables a call of tsc_calibrate does not touch
CalFrame ==
    UNCHANGED <<timer_started, timer_id, timer, halted, last, nticks, all_failed,
                first_ret, pairs, after_bogus, resolved>>

\* cal at the entry of pit_expect_msb(0xFF - k, ...) from the state c
EnterExpect(c, k) ==
    [c EXCEPT !.pc = "poll", !.k = k, !.count = 0, !.etsc = Zero,
              !.polls = 0, !.trues = 0, !.expects = c.expects + 1,
              !.full = (c.full \/ c.expects + 1 > MAX_QUICK_PIT_ITERATIONS)]

\* cal at the return of quick_pit_calibrate with f from the state c
ReturnAttempt(c, f) == [c EXCEPT !.pc = "ret", !.f = f]

\* tsc_calibrate: "while (--i > 0)": the decrement, the test, and the entry
\* of quick_pit_calibrate up to its first pit_expect_msb
CalLoop ==
    /\ cal.pc = "loop"
    /\ cal' = IF cal.i - 1 > 0
              THEN EnterExpect([cal EXCEPT !.i = cal.i - 1, !.n = cal.n + 1,
                                           !.expects = 0, !.base = FALSE,
                                           !.lost = FALSE, !.held = {},
                                           !.final = "none", !.spent = FALSE], 0)
              ELSE [cal EXCEPT !.i = cal.i - 1, !.pc = "exit"]
    /\ UNCHANGED <<cpu_freq, tsc, out, notices>>
    /\ CalFrame

\* pit_expect_msb leaves its loop with count c: "*deltap = read_tsc() - tsc;
\* *tscp = tsc; return count > 6"
LeaveExpect(c, polls) ==
    /\ tsc' = HwAfter(cal.hw, cal.k)
    /\ cal' = [cal EXCEPT !.pc = "sampled", !.count = c, !.polls = polls,
                          !.edelta = Sub(HwAfter(cal.hw, cal.k), cal.etsc),
                          !.ok = enough_polls(c),
                          !.ceiling = (cal.ceiling \/ polls >= POLL_CEILING)]

\* pit_expect_msb: one test of "while (count++ < 50000)" and, when it holds,
\* one pass of the body, where pit_verify_msb returns v
CalPoll(v) ==
    /\ cal.pc = "poll"
    /\ IF poll_again(cal.count)
       THEN IF v
            THEN /\ tsc' = HwAnchor(cal.hw, cal.k)
                 /\ cal' = [cal EXCEPT !.count = cal.count + 1,
                                       !.polls = cal.polls + 1,
                                       !.trues = cal.trues + 1,
                                       !.etsc = HwAnchor(cal.hw, cal.k)]
            ELSE LeaveExpect(cal.count + 1, cal.polls + 1)
       ELSE LeaveExpect(cal.count + 1, cal.polls)
    /\ UNCHANGED <<cpu_freq, out, notices>>
    /\ CalFrame

\* quick_pit_calibrate after the baseline sample: "if (pit_expect_msb(0xFF,
\* &tsc, &d1))"
AfterBaseline ==
    IF cal.ok
    THEN EnterExpect([cal EXCEPT !.qtsc = cal.etsc, !.d1 = cal.edelta, !.base = TRUE], 1)
    ELSE ReturnAttempt(cal, Zero)

\* quick_pit_calibrate after the sample of step k, dec being what the pass
\* decided, with the closing pit_verify_msb returning v if it is reached
AfterStep(dec, within, v) ==
    IF dec.done
    THEN ReturnAttempt([cal EXCEPT !.lost = ~cal.ok,
                                   !.held = IF within THEN cal.held \cup {cal.k}
                                            ELSE cal.held,
                                   !.final = IF ~within THEN "none"
                                             ELSE IF v THEN "ok" ELSE "bad"],
                       dec.ret)
    ELSE IF more_steps(cal.k + 1) THEN EnterExpect(cal, cal.k + 1)
    ELSE ReturnAttempt([cal EXCEPT !.spent = TRUE], Zero)

\* quick_pit_calibrate: what follows a return of pit_expect_msb
CalSample(v) ==
    /\ cal.pc = "sampled"
    /\ cal' = IF cal.k = 0 THEN AfterBaseline
              ELSE AfterStep(step_decide([cal.hw EXCEPT !.fin = v], cal.k, cal.qtsc,
                                         cal.d1,
                                         [ok |-> cal.ok, tsc |-> cal.etsc,
                                          delta |-> cal.edelta]),
                             cal.ok /\ WithinError(cal.d1, cal.edelta,
                                                   Sub(cal.etsc, cal.qtsc)),
                             v)
    /\ UNCHANGED <<cpu_freq, tsc, out, notices>>
    /\ CalFrame

\* tsc_calibrate: "if ((cpu_freq = quick_pit_calibrate())) break;"
CalAssign ==
    /\ cal.pc = "ret"
    /\ cpu_freq' = cal.f
    /\ cal' = [cal EXCEPT !.pc = IF cal.f # Zero THEN "exit" ELSE "loop"]
    /\ UNCHANGED <<tsc, out, notices>>
    /\ CalFrame

\* what tsc_calibrate does behind the loop, fin being calibrate_finish's
\* result
FinishCall(fin) ==
    /\ cpu_freq' = fin.cpu_freq
    /\ notices' = notices + fin.notices
    /\ out' = Notices(fin.notices)
    /\ cal' = [cal EXCEPT !.pc = "returned", !.ret = fin.ret]

\* tsc_calibrate: "if (!i) { ... }" and "return cpu_freq * 1000"
CalReturn ==
    /\ cal.pc = "exit"
    /\ FinishCall(calibrate_finish([i |-> cal.i, cpu_freq |-> cpu_freq,
                                    attempts |-> cal.n, done |-> TRUE]))
    /\ UNCHANGED tsc
    /\ CalFrame

\* tsc_calibrate is entered with an empty cache: "if (!cpu_freq)" holds
CalInit ==
    /\ SessionInit
    /\ cal \in {CalStart(script) : script \in CalScripts}

CalNext ==
    \/ CalLoop
    \/ \E v \in VerifyAnswers : CalPoll(v)
    \/ \E v \in BOOLEAN : CalSample(v)
    \/ CalAssign
    \/ CalReturn

CalSpec == CalInit /\ [][CalNext]_vars

\* ------------------------------------------------------------------------
\* Properties
\* ------------------------------------------------------------------------
\* a step of the session that is a call: calls leave nticks alone, Tick
\* always changes it
IsCall == nticks' = nticks

\* the names get_timer_id is meant to accept
Supported == {"pit", "hpet0", "hpet1"}

\* 2,500,000 * 1000 as a uint64_t
Hz2500000000 == <<63744, 38146, 0, 0>>

TimerErrorLine == [kind |-> "timer_error", name |-> "", neg |-> FALSE, mag |-> Zero]

ZeroSecondsLine == [kind |-> "time", name |-> "", neg |-> FALSE, mag |-> Zero]

UnsupportedStart(name) ==
    [kind |-> "unsupported_start", name |-> name, neg |-> FALSE, mag |-> Zero]

UnsupportedFreq(name) ==
    [kind |-> "unsupported_freq", name |-> name, neg |-> FALSE, mag |-> Zero]

\* the last line a call printed
LastLine(lines) == lines[Len(lines)]

\* C1: timer_start with an unsupported name changes none of timer_started,
\* timer_id and timer, whether the session is Idle or Running.
C1_UnsupportedStartIsNoOp ==
    [][(IsCall /\ last'.op = "timer_start" /\ last'.name \notin Supported)
         => UNCHANGED <<timer_started, timer_id, timer>>]_vars

\* C2: no sequence of calls is fatal: the kernel never stops on a divide
\* error, and whenever timer_stop ran with the session Running the frequency
\* it divided by was not zero.
C2_StopNeverDividesByZero ==
    /\ ~halted
    /\ (last.op = "timer_stop" /\ last.asked) => last.freq # Zero

\* C3: once the first call of tsc_calibrate has returned, the cache never
\* changes again, and every later call returns what the first call returned
\* without a single calibration attempt.
C3_CacheWriteOnce ==
    [][first_ret # Zero
         => /\ cpu_freq' = cpu_freq
            /\ (IsCall /\ last'.asked /\ last'.source = ID_PIT)
                 => (last'.freq = first_ret /\ last'.attempts = 0)]_vars

\* C3 happens: a later call of tsc_calibrate answered from the cache.
C3_Witness ==
    /\ first_ret # Zero
    /\ last.asked /\ last.source = ID_PIT
    /\ last.attempts = 0
    /\ last.freq = first_ret

\* C4: when every calibration attempt returned 0, tsc_calibrate returned
\* 2,500,000 * 1000 at its first call and returns it at every later call,
\* and the notice has been printed exactly once.
C4_FallbackIsDefaultNoticeOnce ==
    all_failed
      => /\ notices = 1
         /\ first_ret = Hz2500000000
         /\ (last.asked /\ last.source = ID_PIT) => last.freq = Hz2500000000

\* C4 happens: after a calibration whose attempts all failed, a later call
\* returned the default from the cache.
C4_Witness ==
    /\ all_failed
    /\ last.op = "timer_cpu_frequency" /\ last.source = ID_PIT
    /\ last.attempts = 0
    /\ last.freq = Hz2500000000
    /\ notices = 1

\* C5: timer_stop in the Idle session prints "Timer Error" and nothing else,
\* asks no source for its frequency, makes no calibration attempt and leaves
\* the session, the cache and the notice count as they were.
C5_IdleStopChangesNothing ==
    [][(IsCall /\ last'.op = "timer_stop" /\ ~timer_started)
         => /\ out' = <<TimerErrorLine>>
            /\ ~last'.asked /\ last'.attempts = 0
            /\ UNCHANGED <<timer_started, timer_id, timer, cpu_freq, notices>>]_vars

\* C5 happens: a stop in the Idle session with the cache still empty.
C5_Witness ==
    /\ last.op = "timer_stop"
    /\ out = <<TimerErrorLine>>
    /\ ~timer_started
    /\ cpu_freq = Zero

\* C6: timer_start with an unsupported name in the Idle session leaves it
\* Idle, and the timer_stop that follows prints "Timer Error", not a time.
C6_BogusStartThenStopIsError ==
    [][/\ (IsCall /\ last'.op = "timer_start" /\ last'.name \notin Supported
             /\ ~timer_started)
          => (~timer_started' /\ out' = <<UnsupportedStart(last'.name)>>)
       /\ (IsCall /\ last'.op = "timer_stop" /\ last.op = "timer_start"
             /\ last.name \notin Supported /\ ~timer_started)
          => out' = <<TimerErrorLine>>]_vars

\* C6 happens: the stop right after an unsupported start in the Idle session.
C6_Witness ==
    /\ after_bogus
    /\ last.op = "timer_stop"
    /\ out = <<TimerErrorLine>>

\* C7: a timer_stop of a session started on "pit", with fewer ticks elapsed
\* than the frequency it gets for "pit", prints 0 as its last line, prints
\* no timer error and leaves the session Idle; the same again for the pair
\* that follows, also when the first stop filled the cache.
C7_PitRoundTripIsZero ==
    [][(IsCall /\ last'.op = "timer_stop" /\ timer_started /\ timer_id = ID_PIT
          /\ Lt(Sub(tsc, timer), last'.freq))
         => /\ out' # <<>>
            /\ LastLine(out') = ZeroSecondsLine
            /\ \A k \in 1..Len(out') : out'[k].kind # "timer_error"
            /\ ~timer_started']_vars

\* C7 happens: two start("pit")/stop pairs in a row, both printing 0, the
\* first of them filling the cache.
C7_Witness ==
    /\ Len(pairs) >= 2
    /\ pairs[1].attempts > 0 /\ pairs[1].line = ZeroSecondsLine
    /\ pairs[2].attempts = 0 /\ pairs[2].line = ZeroSecondsLine
    /\ last.op = "timer_stop"
    /\ ~timer_started

\* C8: timer_cpu_frequency("pm") prints "unsupported timer" and nothing
\* else, asks no source and leaves the cache alone; timer_start("pm") never
\* turns an Idle session into a Running one.
C8_PmIsUnsupported ==
    [][(IsCall /\ last'.name = "pm")
         => /\ (last'.op = "timer_cpu_frequency")
                 => (out' = <<UnsupportedFreq("pm")>> /\ ~last'.asked
                       /\ cpu_freq' = cpu_freq)
            /\ (last'.op = "timer_start")
                 => (out' = <<UnsupportedStart("pm")>>
                       /\ (~timer_started => ~timer_started'))]_vars

\* C8 happens: timer_cpu_frequency("pm") with a filled cache reports
\* unsupported.
C8_Witness ==
    /\ last.op = "timer_cpu_frequency" /\ last.name = "pm"
    /\ out = <<UnsupportedFreq("pm")>>
    /\ cpu_freq # Zero

\* C9: timer_cpu_frequency for "pit", "hpet0" or "hpet1" ends with a
\* frequency line whose value is greater than 0.
C9_FrequencyIsPositive ==
    (last.op = "timer_cpu_frequency" /\ last.name \in Supported)
      => /\ out # <<>>
         /\ LastLine(out).kind = "freq"
         /\ ~LastLine(out).neg
         /\ LastLine(out).mag # Zero

\* C9 happens: timer_cpu_frequency("pit") after a calibration that fell back
\* to the default.
C9_Witness ==
    /\ last.op = "timer_cpu_frequency" /\ last.name = "pit"
    /\ all_failed
    /\ last.attempts > 0
    /\ LastLine(out).kind = "freq" /\ LastLine(out).mag # Zero

\* C10: timer_cpu_frequency, whatever the name, leaves timer_started,
\* timer_id and timer as they were.
C10_QueryLeavesSession ==
    [][(IsCall /\ last'.op = "timer_cpu_frequency")
         => UNCHANGED <<timer_started, timer_id, timer>>]_vars

\* C10 happens: a query of another source while a session is Running.
C10_Witness ==
    /\ last.op = "timer_cpu_frequency" /\ last.asked
    /\ timer_started
    /\ timer_id # ID_NONE /\ timer_id # last.source

\* what print_time prints for the quotient q
SecondsLine(q) == [kind |-> "time", name |-> "", neg |-> FALSE, mag |-> <<q[1], q[2], 0, 0>>]

\* the call printed the "Can't calibrate" notice
PrintedNotice == \E k \in 1..Len(out) : out[k].kind = "notice"

\* C12: a call of tsc_calibrate makes at most 100 attempts, and when it
\* fell back to the default it had made exactly 100.
C12_HundredAttempts ==
    /\ last.attempts <= TIMES
    /\ PrintedNotice => last.attempts = TIMES

\* C13: timer_stop in the Running session asks the source the latest
\* successful timer_start resolved for its frequency f, prints
\* floor((now - timer) / f) and leaves the session Idle with timer_id
\* cleared, whatever calls came before.
C13_StopReportsElapsedOverResolved ==
    [][(IsCall /\ last'.op = "timer_stop" /\ timer_started)
         => /\ ~halted'
            /\ last'.asked /\ last'.source = resolved.id
            /\ last'.freq # Zero
            /\ out' # <<>>
            /\ LastLine(out') = SecondsLine(Div(Sub(tsc, timer), last'.freq))
            /\ ~timer_started' /\ timer_id' = ID_NONE]_vars

\* C14: timer_start with a supported name in the Running session prints
\* nothing, keeps the session Running and stores the current counter and the
\* new id; the timer_stop after a successful timer_start divides the ticks
\* since that start by the frequency of the source it named and ends the
\* session; a timer_stop right after a timer_stop prints "Timer Error".
C14_RestartOverwrites ==
    [][/\ (IsCall /\ last'.op = "timer_start" /\ last'.name \in Supported
             /\ timer_started)
          => /\ out' = <<>>
             /\ timer_started'
             /\ timer' = tsc
             /\ timer_id' = get_timer_id(last'.name)
       /\ (IsCall /\ last'.op = "timer_stop" /\ last.op = "timer_start"
             /\ last.name \in Supported)
          => /\ last'.asked /\ last'.source = get_timer_id(last.name)
             /\ out' # <<>>
             /\ LastLine(out') = SecondsLine(Div(Sub(tsc, timer), last'.freq))
             /\ ~timer_started'
       /\ (IsCall /\ last'.op = "timer_stop" /\ last.op = "timer_stop")
          => out' = <<TimerErrorLine>>]_vars

\* C14 happens: a session started, restarted on hpet0 one default second
\* later and stopped another default second later reports 174 seconds of a
\* 14,318,180 Hz source, not the 349 since the first start.
C14_Witness ==
    /\ last.op = "timer_stop"
    /\ resolved.over
    /\ last.source = ID_HPET0
    /\ last.freq = U64(14318180)
    /\ out = <<SecondsLine(U64(174))>>
    /\ ~timer_started

\* C18: the session is started exactly when a source is recorded.
C18_StartedIffSource == timer_started <=> (timer_id # ID_NONE)

\* C19: timer_stop divides the ticks between the start and its own entry,
\* also when it is the call whose frequency query runs the calibration
\* attempts; timer_start asks no source, makes no attempt and leaves the
\* cache and the notice count alone.
C19_StopReadsBeforeQuery ==
    [][/\ (IsCall /\ last'.op = "timer_stop" /\ timer_started /\ timer_id = ID_PIT)
          => /\ out' # <<>>
             /\ LastLine(out') = SecondsLine(Div(Sub(tsc, timer), last'.freq))
       /\ (IsCall /\ last'.op = "timer_start")
          => /\ ~last'.asked /\ last'.attempts = 0
             /\ cpu_freq' = cpu_freq /\ notices' = notices]_vars

\* C19 happens: a stop that ran the calibration attempts itself and reported
\* an elapsed time that is not 0.
C19_Witness ==
    /\ last.op = "timer_stop"
    /\ last.source = ID_PIT
    /\ last.attempts > 0
    /\ out # <<>>
    /\ LastLine(out).kind = "time"
    /\ LastLine(out).mag # Zero

\* the step-by-step pit_expect_msb and the one-step pit_expect_msb of the
\* session model agree on every sample
SampleAgrees ==
    cal.pc = "sampled"
      => [ok |-> cal.ok, tsc |-> cal.etsc, delta |-> cal.edelta]
           = expect_result(cal.trues, HwAnchor(cal.hw, cal.k), HwAfter(cal.hw, cal.k))

\* C11: whatever the PIT answers, one pit_expect_msb makes at most 50000
\* polls, one attempt makes at most 117 calls of pit_expect_msb, the call
\* makes at most 100 attempts, it can always take its next step until it has
\* returned, and what it returns is a calibrated value or the default.
C11_EveryLoopIsBounded ==
    /\ cal.polls <= 50000
    /\ cal.expects <= 117
    /\ cal.n <= 100
    /\ cal.pc # "returned" => ENABLED CalNext
    /\ cal.pc = "returned"
         => /\ cal.ret # Zero
            /\ \/ cal.f # Zero /\ cal.ret = Mul(cal.f, 1000)
               \/ cal.f = Zero /\ cal.ret = Hz2500000000

\* C11 happens: a call returned the default after an attempt in which the
\* PIT was stuck for 50000 polls and an attempt that took all 117 samples.
C11_Witness ==
    /\ cal.pc = "returned"
    /\ cal.ceiling
    /\ cal.full
    /\ cal.ret = Hz2500000000

C16_NonzeroOnlyAfterAllChecks ==
    cal.pc = "ret"
      => /\ cal.f # Zero
              => /\ cal.base /\ ~cal.lost
                 /\ cal.held = {cal.k}
                 /\ cal.k \in 1..116
                 /\ cal.final = "ok"
         /\ (~cal.base \/ cal.lost \/ cal.final = "bad" \/ cal.spent) => cal.f = Zero

\* C16 happens: an attempt accepted at step 3, after two steps at which the
\* error test did not hold, returns nonzero.
C16_Witness ==
    /\ cal.pc = "ret"
    /\ cal.f # Zero
    /\ cal.k = 3
    /\ cal.held = {3}
    /\ cal.final = "ok"

\* C17: an attempt that reaches "success:" returns a value greater than 0.
C17_SuccessIsNonzero ==
    (cal.pc = "ret" /\ cal.final = "ok") => cal.f # Zero

====
